---------------------------- MODULE Spec2Model ----------------------------
(***************************************************************************)
(* Microstrip patch antenna calculator (src/v.5.py).                       *)
(*                                                                         *)
(* MicrostripPatchAntennaCalculator is a pipeline of closed-form formulas  *)
(* and two scipy quadratures; MicrostripPatchAntennaCalculatorGUI is the   *)
(* Tk front end: three entry fields, a "calculate" handler, eight result   *)
(* labels and a "save" handler that writes a text report.                  *)
(*                                                                         *)
(* Numbers.  Python floats are modelled as decimal floating-point values   *)
(* m * 10^e with a mantissa of Digits significant digits, rounded toward   *)
(* zero, together with the IEEE specials nan, +inf and -inf.  Quantities   *)
(* carry the units of the source (Hz, m, S, Ohm).                          *)
(***************************************************************************)
EXTENDS Integers, Sequences, FiniteSets, TLC

-----------------------------------------------------------------------------
(* Decimal floating point                                                  *)

\* Significant decimal digits of a mantissa (a Python float has about 16).
Digits == 4

RECURSIVE Pow10(_)
Pow10(k) == IF k <= 0 THEN 1 ELSE 10 * Pow10(k - 1)

MantMin == Pow10(Digits - 1)
MantLim == Pow10(Digits)

Abs(n) == IF n < 0 THEN -n ELSE n
Sgn(n) == IF n < 0 THEN -1 ELSE IF n > 0 THEN 1 ELSE 0
\* Integer division rounding toward zero.
Quot(a, b) == Sgn(a) * Sgn(b) * (Abs(a) \div Abs(b))
Min(a, b) == IF a < b THEN a ELSE b

Fin(m, e) == [k |-> "fin", m |-> m, e |-> e]
NaN    == [k |-> "nan", m |-> 0, e |-> 0]
PosInf == [k |-> "inf", m |-> 1, e |-> 0]
NegInf == [k |-> "inf", m |-> -1, e |-> 0]
Zero   == Fin(0, 0)
Inf(s) == IF s < 0 THEN NegInf ELSE PosInf

IsNaN(a) == a.k = "nan"
IsInf(a) == a.k = "inf"
IsFin(a) == a.k = "fin"
IsZero(a) == a.k = "fin" /\ a.m = 0
Sign(a) == Sgn(a.m)

\* The float with value m * 10^e: the mantissa brought to Digits digits.
RECURSIVE Norm(_, _)
Norm(m, e) ==
    IF m = 0 THEN Zero
    ELSE IF Abs(m) >= MantLim THEN Norm(Quot(m, 10), e + 1)
    ELSE IF Abs(m) < MantMin THEN Norm(m * 10, e - 1)
    ELSE Fin(m, e)

\* A decimal literal d * 10^e of the source, e.g. 0.824 is Lit(824, -3).
Lit(d, e) == Norm(d, e)

FNeg(a) == IF IsNaN(a) THEN NaN ELSE [a EXCEPT !.m = -a.m]

\* Sum of two finite floats: the operand of larger exponent is widened by up
\* to Digits digits and the other one cut to that grid.
FinAdd(a, b) ==
    IF a.m = 0 THEN b
    ELSE IF b.m = 0 THEN a
    ELSE LET hi == IF a.e >= b.e THEN a ELSE b
             lo == IF a.e >= b.e THEN b ELSE a
             d  == hi.e - lo.e
             s  == Min(d, Digits)
             cut == IF d - s >= Digits THEN 0 ELSE Quot(lo.m, Pow10(d - s))
         IN  Norm(hi.m * Pow10(s) + cut, hi.e - s)

FAdd(a, b) ==
    IF IsNaN(a) \/ IsNaN(b) THEN NaN
    ELSE IF IsInf(a) /\ IsInf(b) THEN (IF a.m = b.m THEN a ELSE NaN)
    ELSE IF IsInf(a) THEN a
    ELSE IF IsInf(b) THEN b
    ELSE FinAdd(a, b)

FSub(a, b) == FAdd(a, FNeg(b))

FMul(a, b) ==
    IF IsNaN(a) \/ IsNaN(b) THEN NaN
    ELSE IF IsInf(a) \/ IsInf(b)
         THEN (IF IsZero(a) \/ IsZero(b) THEN NaN ELSE Inf(Sign(a) * Sign(b)))
    ELSE Norm(a.m * b.m, a.e + b.e)

\* numpy's float64 division: a zero divisor gives inf or nan (and a warning).
NpDiv(a, b) ==
    IF IsNaN(a) \/ IsNaN(b) THEN NaN
    ELSE IF IsInf(a) THEN (IF IsInf(b) THEN NaN
                           ELSE Inf(Sign(a) * (IF Sign(b) < 0 THEN -1 ELSE 1)))
    ELSE IF IsInf(b) THEN Zero
    ELSE IF b.m = 0 THEN (IF a.m = 0 THEN NaN ELSE Inf(Sign(a)))
    ELSE Norm(Quot(a.m * Pow10(Digits + 1), b.m), a.e - b.e - (Digits + 1))

\* Comparisons; every comparison with nan is false.
FLess(a, b) ==
    /\ ~IsNaN(a) /\ ~IsNaN(b)
    /\ a # b
    /\ IF IsInf(a) THEN a.m < 0
       ELSE IF IsInf(b) THEN b.m > 0
       ELSE FinAdd(a, FNeg(b)).m < 0
FLeq(a, b) == ~IsNaN(a) /\ ~IsNaN(b) /\ (a = b \/ FLess(a, b))

\* Python's max(a, b): b when b > a, otherwise a.
PyMax(a, b) == IF FLess(a, b) THEN b ELSE a

\* Integer square root by bisection.
RECURSIVE ISqrtIter(_, _, _)
ISqrtIter(n, lo, hi) ==
    IF hi - lo <= 1 THEN lo
    ELSE LET mid == (lo + hi) \div 2
         IN  IF mid * mid <= n THEN ISqrtIter(n, mid, hi) ELSE ISqrtIter(n, lo, mid)
ISqrt(n) == ISqrtIter(n, 0, 46341)

\* np.sqrt: nan (and a warning) for a negative argument.
NpSqrt(a) ==
    IF IsNaN(a) THEN NaN
    ELSE IF IsInf(a) THEN (IF a.m > 0 THEN PosInf ELSE NaN)
    ELSE IF a.m < 0 THEN NaN
    ELSE IF a.m = 0 THEN Zero
    ELSE LET odd == (a.e % 2) # 0
             m   == IF odd THEN a.m * 10 ELSE a.m
             e   == IF odd THEN a.e - 1 ELSE a.e
         IN  Norm(ISqrt(m * Pow10(Digits)), (e - Digits) \div 2)

PI == Lit(3141, -3)

\* np.acos on [-1, 1] (nan outside): sqrt(1 - x) * (a0 + a1 x + a2 x^2 + a3 x^3)
\* on [0, 1] (Abramowitz and Stegun 4.4.45), pi - acos(-x) below 0.
AcosUnit(x) ==
    LET a0 == Lit(1570, -3)
        a1 == Lit(-2121, -4)
        a2 == Lit(7426, -5)
        a3 == Lit(-1872, -5)
        p  == FAdd(a0, FMul(x, FAdd(a1, FMul(x, FAdd(a2, FMul(x, a3))))))
    IN  FMul(NpSqrt(FSub(Lit(1, 0), x)), p)

NpAcos(x) ==
    IF ~IsFin(x) THEN NaN
    ELSE IF FLess(Lit(1, 0), x) \/ FLess(x, Lit(-1, 0)) THEN NaN
    ELSE IF x.m < 0 THEN FSub(PI, AcosUnit(FNeg(x)))
    ELSE AcosUnit(x)

\* The first n decimals of log10 of the mantissa m (read as a number in
\* [1, 10)): each tenth power moves the next decimal into the exponent.
RECURSIVE LogDigits(_, _)
LogDigits(m, n) ==
    IF n = 0 THEN 0
    ELSE LET x   == Fin(m, -(Digits - 1))
             x2  == FMul(x, x)
             x4  == FMul(x2, x2)
             x8  == FMul(x4, x4)
             x10 == FMul(x8, x2)
         IN  (x10.e + Digits - 1) * Pow10(n - 1) + LogDigits(x10.m, n - 1)

\* np.log10: -inf at 0 and nan below it (with a warning).
NpLog10(a) ==
    IF IsNaN(a) THEN NaN
    ELSE IF IsInf(a) THEN (IF a.m > 0 THEN PosInf ELSE NaN)
    ELSE IF a.m < 0 THEN NaN
    ELSE IF a.m = 0 THEN NegInf
    ELSE Norm((a.e + Digits - 1) * Pow10(Digits - 1) + LogDigits(a.m, Digits - 1),
              -(Digits - 1))

-----------------------------------------------------------------------------
(* Texts: entry contents are sequences of characters; formatted numbers    *)
(* are records naming the format and the digits printed.                   *)

DigitChars == {"0", "1", "2", "3", "4", "5", "6", "7", "8", "9"}

DigitVal(ch) ==
    CASE ch = "0" -> 0 [] ch = "1" -> 1 [] ch = "2" -> 2 [] ch = "3" -> 3
      [] ch = "4" -> 4 [] ch = "5" -> 5 [] ch = "6" -> 6 [] ch = "7" -> 7
      [] ch = "8" -> 8 [] ch = "9" -> 9

\* str.strip(): leading and trailing blanks removed.
RECURSIVE LStrip(_)
LStrip(s) == IF s # <<>> /\ Head(s) = " " THEN LStrip(Tail(s)) ELSE s
RECURSIVE RStrip(_)
RStrip(s) ==
    IF s # <<>> /\ s[Len(s)] = " " THEN RStrip(SubSeq(s, 1, Len(s) - 1)) ELSE s
strip(s) == RStrip(LStrip(s))

ValueError == [k |-> "ValueError", m |-> 0, e |-> 0]

\* The value of a digit string, most significant digit first.
RECURSIVE DigitsValue(_, _)
DigitsValue(s, acc) ==
    IF s = <<>> THEN acc
    ELSE DigitsValue(Tail(s), FAdd(FMul(acc, Lit(10, 0)), Lit(DigitVal(Head(s)), 0)))

\* float(s) for the decimal literals [sign] digits [. digits] | [sign] . digits
\* (blanks around them allowed); anything else raises ValueError.
float(s) ==
    LET t      == strip(s)
        signed == t # <<>> /\ Head(t) \in {"-", "+"}
        body   == IF signed THEN Tail(t) ELSE t
        dots   == {i \in 1..Len(body) : body[i] = "."}
        digs   == SelectSeq(body, LAMBDA ch : ch \in DigitChars)
        dot    == CHOOSE i \in dots : TRUE
        nfrac  == IF dots = {} THEN 0 ELSE Len(body) - dot
        v      == NpDiv(DigitsValue(digs, Zero), Norm(1, nfrac))
    IN  IF /\ \A i \in 1..Len(body) : body[i] \in DigitChars \cup {"."}
           /\ Cardinality(dots) <= 1
           /\ digs # <<>>
        THEN (IF signed /\ Head(t) = "-" THEN FNeg(v) ELSE v)
        ELSE ValueError

\* f"{a:.<p>f}": p decimals, the last one rounded half up.
FormatFixed(a, p) ==
    IF IsNaN(a) THEN [t |-> "nan", neg |-> FALSE, m |-> 0, e |-> 0]
    ELSE IF IsInf(a) THEN [t |-> "inf", neg |-> a.m < 0, m |-> 0, e |-> 0]
    ELSE IF a.e >= -p THEN [t |-> "f", neg |-> a.m < 0, m |-> Abs(a.m), e |-> a.e]
    ELSE LET shift == -p - a.e
             q == IF shift > Digits THEN 0
                  ELSE (Abs(a.m) + 5 * Pow10(shift - 1)) \div Pow10(shift)
         IN  [t |-> "f", neg |-> a.m < 0, m |-> q, e |-> -p]

\* f"{a:.2e}": three significant digits and the decimal exponent.
FormatSci2(a) ==
    IF IsNaN(a) THEN [t |-> "nan", neg |-> FALSE, m |-> 0, e |-> 0]
    ELSE IF IsInf(a) THEN [t |-> "inf", neg |-> a.m < 0, m |-> 0, e |-> 0]
    ELSE IF a.m = 0 THEN [t |-> "e", neg |-> FALSE, m |-> 0, e |-> 0]
    ELSE LET q == (Abs(a.m) + 5) \div 10
         IN  IF q >= Pow10(Digits - 1)
             THEN [t |-> "e", neg |-> a.m < 0, m |-> q \div 10, e |-> a.e + Digits]
             ELSE [t |-> "e", neg |-> a.m < 0, m |-> q, e |-> a.e + Digits - 1]

\* f"{a}": the repr of the float, which identifies it.
FormatRepr(a) == [t |-> "repr", neg |-> a.m < 0, m |-> Abs(a.m), e |-> a.e]

-----------------------------------------------------------------------------
(* MicrostripPatchAntennaCalculator                                        *)

\* Raised by a division of Python floats by zero (numpy's float64 division
\* returns inf or nan instead).
ZeroDivisionError == [k |-> "ZeroDivisionError", m |-> 0, e |-> 0]
\* A local variable not assigned yet, a value not computed.
Unset == [k |-> "unset", m |-> 0, e |-> 0]
None == [k |-> "None"]

IsRaised(v) == v.k = "ZeroDivisionError"

\* __init__: the calculator's only field.
SpeedOfLight == Lit(3, 8)
NewCalculator == [c |-> SpeedOfLight]

calculate_patch_width(self, fr, epsilon_r) ==
    LET d1 == FMul(Lit(2, 0), fr)
        d2 == FAdd(epsilon_r, Lit(1, 0))
    IN  IF IsZero(d1) \/ IsZero(d2) THEN ZeroDivisionError
        ELSE FMul(NpDiv(self.c, d1), NpSqrt(NpDiv(Lit(2, 0), d2)))

\* A variant that subtracts the second term, for comparison.
effective_permittivity_subtracting(self, epsilon_r, h, W) ==
    LET term == NpDiv(Lit(1, 0),
                      NpSqrt(FAdd(Lit(1, 0), FMul(Lit(12, 0), NpDiv(h, W)))))
    IN  FSub(NpDiv(FAdd(epsilon_r, Lit(1, 0)), Lit(2, 0)),
             FMul(NpDiv(FSub(epsilon_r, Lit(1, 0)), Lit(2, 0)), term))

calculate_effective_permittivity(self, epsilon_r, h, W) ==
    LET term == NpDiv(Lit(1, 0),
                      NpSqrt(FAdd(Lit(1, 0), FMul(Lit(12, 0), NpDiv(h, W)))))
    IN  FAdd(NpDiv(FAdd(epsilon_r, Lit(1, 0)), Lit(2, 0)),
             FMul(NpDiv(FSub(epsilon_r, Lit(1, 0)), Lit(2, 0)), term))

calculate_patch_length(self, fr, epsilon_ref, h, W) ==
    LET term1 == NpDiv(self.c, FMul(FMul(Lit(2, 0), fr), NpSqrt(epsilon_ref)))
        term2_numerator ==
            FMul(FAdd(epsilon_ref, Lit(3, -1)), FAdd(NpDiv(W, h), Lit(264, -3)))
        term2_denominator ==
            FMul(FSub(epsilon_ref, Lit(258, -3)), FAdd(NpDiv(W, h), Lit(8, -1)))
        term2 == FMul(FMul(Lit(824, -3), h),
                      NpDiv(term2_numerator, term2_denominator))
    IN  FSub(term1, term2)

\* The free-space wavenumber both integrators close over; lambda_0 and k0
\* are quotients of Python floats.
wavenumber(self, fr) ==
    IF IsZero(fr) THEN ZeroDivisionError
    ELSE LET lambda_0 == NpDiv(self.c, fr)
         IN  IF IsZero(lambda_0) THEN ZeroDivisionError
             ELSE NpDiv(FMul(Lit(2, 0), PI), lambda_0)

\* scipy's quadrature of an integrand closed over `params`.  The routine is
\* deterministic; its value is not computed here but taken from one of a few
\* behaviours of the integrator: the leading term of the integral's series
\* for a narrow patch, exactly zero, negative rounding noise, or a large
\* value.  An integrand that is nan everywhere integrates to nan.
QuadModes == {"series", "zero", "noise", "large"}
integrate_quad(mode, series, params) ==
    IF \E i \in 1..Len(params) : ~IsFin(params[i]) THEN NaN
    ELSE CASE mode = "series" -> series
           [] mode = "zero"   -> Zero
           [] mode = "noise"  -> Lit(-1, -15)
           [] mode = "large"  -> Lit(1, 1)

\* integrand_G1: [sin(k0 W/2 cos t)/cos t]^2 sin^3 t integrates to about
\* (k0 W)^2 / 3.
series_G1(k0, W) == NpDiv(FMul(FMul(k0, W), FMul(k0, W)), Lit(3, 0))
\* integrand_G12 carries the factor j0(k0 L sin t), about 1 - (k0 L)^2 / 4.
series_G12(k0, W, L) ==
    FMul(series_G1(k0, W),
         FSub(Lit(1, 0), NpDiv(FMul(FMul(k0, L), FMul(k0, L)), Lit(4, 0))))
\* integrand_I1 carries cos^2(...), of mean 1/2 over phi in [0, pi].
series_I1(k0, W, Leff) == FMul(NpDiv(PI, Lit(2, 0)), series_G1(k0, W))

\* 120 * np.pi ** 2
ConductanceScale == FMul(Lit(120, 0), FMul(PI, PI))
ConductanceFloor == Lit(1, -12)

\* Lines 98-101: both integrals scaled and clamped from below.
\* A variant clamping at 0 instead of the floor, for comparison.
conductances_clamped_at_zero(int_G1, int_G12) ==
    <<PyMax(NpDiv(int_G1, ConductanceScale), Zero),
      PyMax(NpDiv(int_G12, ConductanceScale), Zero)>>

conductances_from_integrals(int_G1, int_G12) ==
    LET G1  == NpDiv(int_G1, ConductanceScale)
        G12 == NpDiv(int_G12, ConductanceScale)
    IN  <<PyMax(G1, ConductanceFloor), PyMax(G12, ConductanceFloor)>>

calculate_conductances(self, W, L, fr, quad) ==
    LET k0 == wavenumber(self, fr)
    IN  IF IsRaised(k0) THEN ZeroDivisionError
        ELSE conductances_from_integrals(
                 integrate_quad(quad.G1, series_G1(k0, W), <<k0, W>>),
                 integrate_quad(quad.G12, series_G12(k0, W, L), <<k0, W, L>>))

calculate_input_impedance_edge(self, G1, G12) ==
    LET d == FMul(Lit(2, 0), FAdd(G1, G12))
    IN  IF IsZero(d) THEN ZeroDivisionError ELSE NpDiv(Lit(1, 0), d)

\* A variant whose guard is R_in_edge <= 50, for comparison.
feed_position_guard_inclusive(self, R_in_edge, L) ==
    IF FLeq(R_in_edge, Lit(50, 0))
    THEN [y0 |-> Zero, acos_of |-> Unset]
    ELSE LET arg == NpSqrt(NpDiv(Lit(50, 0), R_in_edge))
         IN  [y0 |-> FMul(NpDiv(L, PI), NpAcos(arg)), acos_of |-> arg]

\* A variant that multiplies by L instead of L / pi, for comparison.
feed_position_without_pi(self, R_in_edge, L) ==
    IF FLess(R_in_edge, Lit(50, 0))
    THEN [y0 |-> Zero, acos_of |-> Unset]
    ELSE LET arg == NpSqrt(NpDiv(Lit(50, 0), R_in_edge))
         IN  [y0 |-> FMul(L, NpAcos(arg)), acos_of |-> arg]

\* The result y0 and, in acos_of, the argument np.acos was evaluated at
\* (Unset when it was not evaluated).
calculate_feed_position(self, R_in_edge, L) ==
    IF FLess(R_in_edge, Lit(50, 0))
    THEN [y0 |-> Zero, acos_of |-> Unset]
    ELSE IF IsZero(R_in_edge) THEN [y0 |-> ZeroDivisionError, acos_of |-> Unset]
    ELSE LET arg == NpSqrt(NpDiv(Lit(50, 0), R_in_edge))
         IN  [y0 |-> FMul(NpDiv(L, PI), NpAcos(arg)), acos_of |-> arg]

\* A variant whose guard is I1 >= 0, for comparison.
directivity_guard_inclusive(self, W, lambda_0, I1) ==
    IF FLeq(Zero, I1)
    THEN LET r == NpDiv(FMul(FMul(Lit(2, 0), PI), W), lambda_0)
             D == FMul(FMul(r, r), NpDiv(PI, I1))
         IN  [D_dBi |-> FMul(Lit(10, 0), NpLog10(D)), log_of |-> D, div_by |-> I1]
    ELSE [D_dBi |-> Zero, log_of |-> Unset, div_by |-> Unset]

\* The result D_dBi and, in log_of, the argument np.log10 was evaluated at,
\* in div_by the divisor I1 of np.pi / I1 (Unset when not evaluated).
calculate_directivity_from_integral(self, W, lambda_0, I1) ==
    IF FLess(Zero, I1)
    THEN LET r == NpDiv(FMul(FMul(Lit(2, 0), PI), W), lambda_0)
             D == FMul(FMul(r, r), NpDiv(PI, I1))
         IN  [D_dBi |-> FMul(Lit(10, 0), NpLog10(D)), log_of |-> D, div_by |-> I1]
    ELSE [D_dBi |-> Zero, log_of |-> Unset, div_by |-> Unset]

calculate_directivity(self, W, L, fr, epsilon_ref, quad) ==
    LET k0 == wavenumber(self, fr)
    IN  IF IsRaised(k0) THEN [D_dBi |-> ZeroDivisionError, log_of |-> Unset, div_by |-> Unset]
        ELSE LET lambda_0 == NpDiv(self.c, fr)
                 Leff == NpDiv(self.c, FMul(FMul(Lit(2, 0), fr), NpSqrt(epsilon_ref)))
                 I1 == integrate_quad(quad.I1, series_I1(k0, W, Leff), <<k0, W, Leff>>)
             IN  calculate_directivity_from_integral(self, W, lambda_0, I1)

\* One invocation of calculate_antenna_parameters: its arguments, its local
\* variables and the statement it is at; `overlapped` records that another
\* invocation executed a statement after this one began.
NewFrame(fr, epsilon_r, h) ==
    [pc |-> "patch_width", fr |-> fr, epsilon_r |-> epsilon_r, h |-> h,
     W |-> Unset, epsilon_ref |-> Unset, L |-> Unset, G1 |-> Unset,
     G12 |-> Unset, R_in_edge |-> Unset, y0 |-> Unset, D |-> Unset,
     ret |-> None, overlapped |-> FALSE]

\* An exception leaves the invocation; the frame keeps its name in ret.
Raise(f, exc) == [f EXCEPT !.pc = "raised", !.ret = [k |-> exc.k]]

\* A local variable assigned and the next statement reached, unless the
\* value's computation raised.
Assign(f, var, value, next) ==
    IF IsRaised(value) THEN Raise(f, value)
    ELSE [f EXCEPT ![var] = value, !.pc = next]

\* G1, G12 = ...: the pair unpacked.
AssignConductances(f, G) ==
    IF G = ZeroDivisionError THEN Raise(f, G)
    ELSE [f EXCEPT !.G1 = G[1], !.G12 = G[2], !.pc = "input_impedance_edge"]

\* A variant of the first statement that halves self.c in place (c / 2 kept
\* in the attribute), for comparison.
stmt_patch_width_halving_c(self, f, quad) ==
    [self |-> [self EXCEPT !.c = NpDiv(self.c, Lit(2, 0))],
     f |-> Assign(f, "W", calculate_patch_width(self, f.fr, f.epsilon_r),
                  "effective_permittivity")]

\* A variant of the conductance statement that leaves the wavelength in
\* self.c while it integrates, for comparison.
stmt_conductances_wavelength_in_c(self, f, quad) ==
    [self |-> [self EXCEPT !.c = NpDiv(self.c, f.fr)],
     f |-> AssignConductances(f, calculate_conductances(self, f.W, f.L, f.fr, quad))]

\* Each statement of calculate_antenna_parameters: the calculator and the
\* frame after it.
stmt_patch_width(self, f, quad) ==
    [self |-> self,
     f |-> Assign(f, "W", calculate_patch_width(self, f.fr, f.epsilon_r),
                  "effective_permittivity")]

stmt_effective_permittivity(self, f, quad) ==
    [self |-> self,
     f |-> Assign(f, "epsilon_ref",
                  calculate_effective_permittivity(self, f.epsilon_r, f.h, f.W),
                  "patch_length")]

stmt_patch_length(self, f, quad) ==
    [self |-> self,
     f |-> Assign(f, "L",
                  calculate_patch_length(self, f.fr, f.epsilon_ref, f.h, f.W),
                  "conductances")]

stmt_conductances(self, f, quad) ==
    [self |-> self,
     f |-> AssignConductances(f, calculate_conductances(self, f.W, f.L, f.fr, quad))]

stmt_input_impedance_edge(self, f, quad) ==
    [self |-> self,
     f |-> Assign(f, "R_in_edge",
                  calculate_input_impedance_edge(self, f.G1, f.G12),
                  "feed_position")]

stmt_feed_position(self, f, quad) ==
    [self |-> self,
     f |-> Assign(f, "y0", calculate_feed_position(self, f.R_in_edge, f.L).y0,
                  "directivity")]

stmt_directivity(self, f, quad) ==
    [self |-> self,
     f |-> Assign(f, "D",
                  calculate_directivity(self, f.W, f.L, f.fr, f.epsilon_ref, quad).D_dBi,
                  "results")]

\* Lines 40-54: the results dictionary, returned.
stmt_results(self, f, quad) ==
    [self |-> self,
     f |-> [f EXCEPT !.pc = "returned",
                     !.ret = [k |-> "dict",
                              resonant_frequency |-> f.fr,
                              substrate_permittivity |-> f.epsilon_r,
                              substrate_height |-> f.h,
                              patch_width |-> f.W,
                              patch_length |-> f.L,
                              effective_permittivity |-> f.epsilon_ref,
                              single_slot_conductance |-> f.G1,
                              mutual_conductance |-> f.G12,
                              input_impedance_edge |-> f.R_in_edge,
                              feed_position_50ohm |-> f.y0,
                              directivity |-> f.D]]]

Statements == {"patch_width", "effective_permittivity", "patch_length",
               "conductances", "input_impedance_edge", "feed_position",
               "directivity", "results"}

\* The statement the frame is at, executed.
Step(self, f, quad) ==
    CASE f.pc = "patch_width"            -> stmt_patch_width(self, f, quad)
      [] f.pc = "effective_permittivity" -> stmt_effective_permittivity(self, f, quad)
      [] f.pc = "patch_length"           -> stmt_patch_length(self, f, quad)
      [] f.pc = "conductances"           -> stmt_conductances(self, f, quad)
      [] f.pc = "input_impedance_edge"   -> stmt_input_impedance_edge(self, f, quad)
      [] f.pc = "feed_position"          -> stmt_feed_position(self, f, quad)
      [] f.pc = "directivity"            -> stmt_directivity(self, f, quad)
      [] f.pc = "results"                -> stmt_results(self, f, quad)

\* An invocation run to its end without interruption.
RECURSIVE Run(_, _, _)
Continue(s, quad) == Run(s.self, s.f, quad)
Run(self, f, quad) ==
    IF f.pc \in Statements
    THEN Continue(Step(self, f, quad), quad)
    ELSE [self |-> self, f |-> f]

\* calculate_antenna_parameters called on `self`: the calculator afterwards
\* and the finished frame (ret is the dictionary, or the exception raised).
calculate_antenna_parameters(self, fr, epsilon_r, h, quad) ==
    Run(self, NewFrame(fr, epsilon_r, h), quad)

-----------------------------------------------------------------------------
(* State                                                                   *)

VARIABLES
    calculator,       \* the MicrostripPatchAntennaCalculator object: [c]
    quad,             \* the behaviour of scipy's integrator in this run
    frames,           \* per thread, its invocation of calculate_antenna_parameters
    remembered,       \* one earlier invocation kept for comparison: its
                      \* arguments and result
    probe,            \* one application of a single method: [fn, args, out]
    input_vars,       \* GUI: the three entry texts
    current_results,  \* GUI: self.current_results
    result_vars,      \* GUI: the eight result labels
    files,            \* the reports save_results has written, oldest first
    event,            \* what the last GUI handler did: the handler, the
                      \* message box it showed, the arguments it passed to the core
    last_ok           \* the dictionary returned by the latest calculation that
                      \* succeeded (None before the first)

vars == <<calculator, quad, frames, remembered, probe, input_vars,
          current_results, result_vars, files, event, last_ok>>

calc_vars == <<frames, remembered>>
gui_vars == <<input_vars, current_results, result_vars, files, event, last_ok>>

\* The integrator behaviours explored: one mode per integral.
QuadBehaviours ==
    { [G1 |-> "series", G12 |-> "series", I1 |-> "series"],
      [G1 |-> "large",  G12 |-> "large",  I1 |-> "series"],
      [G1 |-> "zero",   G12 |-> "noise",  I1 |-> "zero"] }

-----------------------------------------------------------------------------
(* SpecCalc: invocations of calculate_antenna_parameters on one calculator *)
(* from two threads, interleaved statement by statement.                   *)

Threads == {"t1", "t2"}
Idle == [pc |-> "idle"]

\* Arguments <<fr, epsilon_r, h>> of the invocations: 2.4 GHz and 5 GHz
\* designs on an epsilon_r = 4.4 substrate, the upper end of the ranges the
\* GUI announces (100 GHz on a 100 mm substrate), and a zero frequency.
ArgumentSamples ==
    { <<Lit(24, 8), Lit(44, -1), Lit(16, -4)>>,
      <<Lit(5, 9),  Lit(44, -1), Lit(1, -3)>>,
      <<Lit(1, 11), Lit(44, -1), Lit(1, -1)>>,
      <<Zero,       Lit(44, -1), Lit(16, -4)>> }

Args(f) == <<f.fr, f.epsilon_r, f.h>>

InitCalc ==
    /\ calculator = NewCalculator
    /\ quad \in QuadBehaviours
    /\ frames = [t \in Threads |-> Idle]
    /\ remembered = None
    /\ probe = None
    /\ input_vars = None /\ current_results = None /\ result_vars = None
    /\ files = <<>> /\ event = None /\ last_ok = None

\* A thread that is not inside an invocation starts one.
Call(t) ==
    /\ frames[t].pc \in {"idle", "returned", "raised"}
    /\ \E a \in ArgumentSamples :
           frames' = [frames EXCEPT ![t] = NewFrame(a[1], a[2], a[3])]
    /\ remembered' = IF remembered # None /\ remembered.by = t
                     THEN [remembered EXCEPT !.by = "nobody"]
                     ELSE remembered
    /\ UNCHANGED <<calculator, quad, probe, gui_vars>>

\* The frames after thread t's frame became f: the other invocations that
\* have begun and not ended were overlapped by this statement.
Overlap(t, f) ==
    [u \in Threads |->
        IF u = t THEN f
        ELSE IF frames[u].pc \in Statements \ {"patch_width"}
             THEN [frames[u] EXCEPT !.overlapped = TRUE]
             ELSE frames[u]]

\* A thread executes the statement it is at (any but the last).
Execute(t) ==
    /\ frames[t].pc \in Statements \ {"results"}
    /\ \E s \in {Step(calculator, frames[t], quad)} :
           /\ calculator' = s.self
           /\ frames' = Overlap(t, s.f)
    /\ UNCHANGED <<quad, remembered, probe, gui_vars>>

\* A thread returns its results.  The first result may be kept for
\* comparison with later ones; `between` tells that an invocation with
\* other arguments has returned since.
Return(t) ==
    /\ frames[t].pc = "results"
    /\ \E s \in {Step(calculator, frames[t], quad)} :
           /\ calculator' = s.self
           /\ frames' = Overlap(t, s.f)
           /\ \/ /\ remembered = None
                 /\ remembered' = [args |-> Args(s.f), ret |-> s.f.ret,
                                   by |-> t, between |-> FALSE]
              \/ /\ remembered' =
                        IF remembered # None /\ remembered.args # Args(s.f)
                        THEN [remembered EXCEPT !.between = TRUE]
                        ELSE remembered
    /\ UNCHANGED <<quad, probe, gui_vars>>

NextCalc == \E t \in Threads : Call(t) \/ Execute(t) \/ Return(t)

SpecCalc == InitCalc /\ [][NextCalc]_vars

-----------------------------------------------------------------------------
(* SpecFn: single methods applied to sampled arguments.                    *)

\* Samples reach down to 10^(-3 * MaxScale) in magnitude.
MaxScale == 5
\* Edge impedances sampled in steps of 10 Ohm up to 10 * MaxImpedanceSteps.
MaxImpedanceSteps == 8
\* Patch lengths sampled in steps of 1 cm up to MaxLengthSteps cm either way.
MaxLengthSteps == 3

\* Values an integration may produce: zero, both signs over many orders of
\* magnitude, the value that scales to the floor exactly, and nan.
IntegralSamples ==
    {Zero, NaN, FMul(ConductanceFloor, ConductanceScale)}
        \cup {Lit(sg, -3 * j) : sg \in {-1, 1}, j \in 0..MaxScale}
        \cup {Lit(1218, -3), Lit(1, 1)}

ImpedanceSamples ==
    {Zero, NaN, Lit(-5, 1), Lit(4999, -2), Lit(5001, -2), Lit(25, 10)}
        \cup {Lit(10 * j, 0) : j \in 1..MaxImpedanceSteps}

LengthSamples == {Lit(j, -2) : j \in -MaxLengthSteps..MaxLengthSteps}

\* Ratios h / W sampled as powers of ten up to 10^MaxRatioExp either way.
MaxRatioExp == 3

\* Substrate permittivities: below 1, exactly 1, just above it, typical
\* laminates and the top of the announced range.
PermittivitySamples ==
    {Lit(5, -1), Lit(1, 0), Lit(1001, -3), Lit(11, -1), Lit(2, 0), Lit(44, -1),
     Lit(151, -1), Lit(20, 0)}

\* Patch widths, and for each the heights h = W * 10^j.
WidthSamples == {Lit(3803, -5), Lit(1, 0)}
HeightSamples(W) == {FMul(W, Lit(1, j)) : j \in -MaxRatioExp..MaxRatioExp}

Probes ==
    {[fn |-> "conductances", args |-> <<a, b>>, out |-> Unset] :
        a \in IntegralSamples, b \in IntegralSamples}
    \cup {[fn |-> "feed_position", args |-> <<R, L>>, out |-> Unset] :
        R \in ImpedanceSamples, L \in LengthSamples}
    \cup {[fn |-> "directivity", args |-> <<W, I1>>, out |-> Unset] :
        W \in {Lit(3803, -5), Lit(9127, -7)}, I1 \in IntegralSamples}
    \cup UNION {{[fn |-> "effective_permittivity", args |-> <<er, h, W>>,
                  out |-> Unset] : er \in PermittivitySamples, h \in HeightSamples(W)} :
                W \in WidthSamples}

InitFn ==
    /\ calculator = NewCalculator
    /\ quad = [G1 |-> "series", G12 |-> "series", I1 |-> "series"]
    /\ probe \in Probes
    /\ frames = [t \in Threads |-> Idle]
    /\ remembered = None
    /\ input_vars = None /\ current_results = None /\ result_vars = None
    /\ files = <<>> /\ event = None /\ last_ok = None

apply_conductances ==
    /\ probe.fn = "conductances" /\ probe.out = Unset
    /\ probe' = [probe EXCEPT
                   !.out = conductances_from_integrals(probe.args[1], probe.args[2])]
    /\ UNCHANGED <<calculator, quad, calc_vars, gui_vars>>

apply_feed_position ==
    /\ probe.fn = "feed_position" /\ probe.out = Unset
    /\ probe' = [probe EXCEPT
                   !.out = calculate_feed_position(calculator, probe.args[1],
                                                   probe.args[2])]
    /\ UNCHANGED <<calculator, quad, calc_vars, gui_vars>>

\* The directivity at 2.4 GHz (lambda_0 = 0.125 m) for a given integral I1.
apply_directivity ==
    /\ probe.fn = "directivity" /\ probe.out = Unset
    /\ probe' = [probe EXCEPT
                   !.out = calculate_directivity_from_integral(
                               calculator, probe.args[1],
                               NpDiv(calculator.c, Lit(24, 8)), probe.args[2])]
    /\ UNCHANGED <<calculator, quad, calc_vars, gui_vars>>

apply_effective_permittivity ==
    /\ probe.fn = "effective_permittivity" /\ probe.out = Unset
    /\ probe' = [probe EXCEPT
                   !.out = calculate_effective_permittivity(
                               calculator, probe.args[1], probe.args[2],
                               probe.args[3])]
    /\ UNCHANGED <<calculator, quad, calc_vars, gui_vars>>

NextFn ==
    \/ apply_conductances
    \/ apply_feed_position
    \/ apply_directivity
    \/ apply_effective_permittivity

SpecFn == InitFn /\ [][NextFn]_vars

-----------------------------------------------------------------------------
(* MicrostripPatchAntennaCalculatorGUI                                     *)

InputKeys == {"freq", "epsilon", "height"}
ResultKeys == {"patch_width", "patch_length", "feed_position_50ohm",
               "effective_permittivity", "input_impedance_edge",
               "single_slot_conductance", "mutual_conductance", "directivity"}

\* create_result_row: every label starts as "--".
Placeholder == [t |-> "--", neg |-> FALSE, m |-> 0, e |-> 0]

\* setup_input_panel: the entries' default texts.
DefaultInputs ==
    [freq |-> <<"2", ".", "4">>, epsilon |-> <<"4", ".", "4">>,
     height |-> <<"1", ".", "6">>]

\* What the user may type into each entry: the default, an empty or blank
\* field, a non-numeric text, numbers outside the announced ranges (0 GHz,
\* 200 GHz, a permittivity of -1) and a padded number.
EntryTexts ==
    [freq    |-> {<<"2", ".", "4">>, <<>>, <<"0">>, <<"2", "0", "0">>},
     epsilon |-> {<<"4", ".", "4">>, <<"x">>, <<"-", "1">>},
     height  |-> {<<"1", ".", "6">>, <<" ">>, <<" ", "1", "0", "0", " ">>}]

\* A variant whose formatted dictionary misspells the directivity key, for
\* comparison.
update_results_display_misspelt(labels, results) ==
    [key \in DOMAIN labels |->
        IF key = "patch_width"
        THEN FormatFixed(FMul(results.patch_width, Lit(1000, 0)), 2)
        ELSE IF key = "patch_length"
        THEN FormatFixed(FMul(results.patch_length, Lit(1000, 0)), 2)
        ELSE IF key = "feed_position_50ohm"
        THEN FormatFixed(FMul(results.feed_position_50ohm, Lit(1000, 0)), 2)
        ELSE IF key = "effective_permittivity"
        THEN FormatFixed(results.effective_permittivity, 3)
        ELSE IF key = "input_impedance_edge"
        THEN FormatFixed(results.input_impedance_edge, 2)
        ELSE IF key = "single_slot_conductance"
        THEN FormatSci2(results.single_slot_conductance)
        ELSE IF key = "mutual_conductance"
        THEN FormatSci2(results.mutual_conductance)
        ELSE labels[key]]

\* update_results_display: the eight values formatted, then every label
\* whose key is among the formatted ones set.
update_results_display(labels, results) ==
    LET mm(x) == FMul(x, Lit(1000, 0))
        formatted_results ==
            [patch_width |-> FormatFixed(mm(results.patch_width), 2),
             patch_length |-> FormatFixed(mm(results.patch_length), 2),
             feed_position_50ohm |-> FormatFixed(mm(results.feed_position_50ohm), 2),
             effective_permittivity |-> FormatFixed(results.effective_permittivity, 3),
             input_impedance_edge |-> FormatFixed(results.input_impedance_edge, 2),
             single_slot_conductance |-> FormatSci2(results.single_slot_conductance),
             mutual_conductance |-> FormatSci2(results.mutual_conductance),
             directivity |-> FormatFixed(results.directivity, 2)]
    IN  [key \in DOMAIN labels |->
            IF key \in DOMAIN formatted_results THEN formatted_results[key]
            ELSE labels[key]]

\* Lines 396-405: the core's outcome taken up: the results stored and
\* displayed, or the exception reported.
after_core(gui, args, call) ==
    IF call.f.pc = "raised"
    THEN [gui |-> [gui EXCEPT !.calculator = call.self],
          shown |-> "error: calculation failed", core |-> args]
    ELSE [gui |-> [gui EXCEPT
                     !.calculator = call.self,
                     !.current_results = call.f.ret,
                     !.result_vars =
                         update_results_display(gui.result_vars, call.f.ret)],
          shown |-> "none", core |-> args]

calculate_and_show(gui, fr, epsilon_r, h, q) ==
    after_core(gui, <<fr, epsilon_r, h>>,
               calculate_antenna_parameters(gui.calculator, fr, epsilon_r, h, q))

\* A variant that forgets the previous results before it validates, for
\* comparison.
calculate_parameters_handler_forgetting(gui, q) ==
    LET cleared == [gui EXCEPT !.current_results = None]
        freq    == strip(gui.input_vars.freq)
        epsilon == strip(gui.input_vars.epsilon)
        height  == strip(gui.input_vars.height)
    IN  IF freq = <<>> \/ epsilon = <<>> \/ height = <<>>
        THEN [gui |-> cleared, shown |-> "error: fill in all fields", core |-> None]
        ELSE IF \/ float(freq) = ValueError
                \/ float(epsilon) = ValueError
                \/ float(height) = ValueError
        THEN [gui |-> cleared, shown |-> "error: not numbers", core |-> None]
        ELSE calculate_and_show(cleared, FMul(float(freq), Lit(1, 9)), float(epsilon),
                                FMul(float(height), Lit(1, -3)), q)

\* The handler of the "calculate" button, on the GUI object `gui`
\* ([input_vars, current_results, result_vars, calculator]): the object
\* afterwards, the message box shown and the arguments passed to the core
\* (None when it was not called).  self.root.update() first runs the
\* handlers of pending events; they are the steps taken before this one.
calculate_parameters_handler(gui, q) ==
    LET freq    == strip(gui.input_vars.freq)
        epsilon == strip(gui.input_vars.epsilon)
        height  == strip(gui.input_vars.height)
    IN  IF freq = <<>> \/ epsilon = <<>> \/ height = <<>>
        THEN [gui |-> gui, shown |-> "error: fill in all fields", core |-> None]
        ELSE IF \/ float(freq) = ValueError
                \/ float(epsilon) = ValueError
                \/ float(height) = ValueError
        THEN [gui |-> gui, shown |-> "error: not numbers", core |-> None]
        ELSE calculate_and_show(gui, FMul(float(freq), Lit(1, 9)), float(epsilon),
                                FMul(float(height), Lit(1, -3)), q)

\* A variant that echoes the entries as they are when the report is written
\* (no report when they are not numbers), for comparison.
report_text_from_entries(gui) ==
    LET r  == gui.current_results
        fr == float(strip(gui.input_vars.freq))
        er == float(strip(gui.input_vars.epsilon))
        h  == float(strip(gui.input_vars.height))
    IN  IF ValueError \in {fr, er, h} THEN None
        ELSE [resonant_frequency |-> FormatFixed(fr, 3),
              substrate_permittivity |-> FormatRepr(er),
              substrate_height |-> FormatFixed(h, 2),
              patch_width |-> FormatFixed(FMul(r.patch_width, Lit(1000, 0)), 2),
              patch_length |-> FormatFixed(FMul(r.patch_length, Lit(1000, 0)), 2),
              feed_position_50ohm |->
                  FormatFixed(FMul(r.feed_position_50ohm, Lit(1000, 0)), 2),
              effective_permittivity |-> FormatFixed(r.effective_permittivity, 3),
              input_impedance_edge |-> FormatFixed(r.input_impedance_edge, 2),
              single_slot_conductance |-> FormatSci2(r.single_slot_conductance),
              mutual_conductance |-> FormatSci2(r.mutual_conductance),
              directivity |-> FormatFixed(r.directivity, 2)]

\* The text save_results writes: the three echoed inputs and the eight
\* results of self.current_results.
report_text(gui) ==
    LET r == gui.current_results
        mm(x) == FMul(x, Lit(1000, 0))
    IN  [resonant_frequency |->
             FormatFixed(NpDiv(r.resonant_frequency, Lit(1, 9)), 3),
         substrate_permittivity |-> FormatRepr(r.substrate_permittivity),
         substrate_height |-> FormatFixed(mm(r.substrate_height), 2),
         patch_width |-> FormatFixed(mm(r.patch_width), 2),
         patch_length |-> FormatFixed(mm(r.patch_length), 2),
         feed_position_50ohm |-> FormatFixed(mm(r.feed_position_50ohm), 2),
         effective_permittivity |-> FormatFixed(r.effective_permittivity, 3),
         input_impedance_edge |-> FormatFixed(r.input_impedance_edge, 2),
         single_slot_conductance |-> FormatSci2(r.single_slot_conductance),
         mutual_conductance |-> FormatSci2(r.mutual_conductance),
         directivity |-> FormatFixed(r.directivity, 2)]

\* The handler of the "save" button: the message box shown and the report
\* written (None when no file is written).  can_open tells whether the file
\* could be opened for writing.
save_results_handler(gui, can_open) ==
    IF gui.current_results = None
    THEN [shown |-> "warning: calculate first", written |-> None]
    ELSE IF ~can_open
    THEN [shown |-> "error: could not save", written |-> None]
    ELSE [shown |-> "info: saved", written |-> report_text(gui)]

-----------------------------------------------------------------------------
(* Spec: the GUI after construction, driven by the user.                   *)

\* Reports written in one run (each save makes a new timestamped file).
MaxFiles == 2

Gui == [input_vars |-> input_vars, current_results |-> current_results,
        result_vars |-> result_vars, calculator |-> calculator]

Init ==
    /\ calculator = NewCalculator
    /\ quad \in QuadBehaviours
    /\ input_vars = DefaultInputs
    /\ current_results = None
    /\ result_vars = [key \in ResultKeys |-> Placeholder]
    /\ files = <<>>
    /\ event = [op |-> "init", shown |-> "none", core |-> None]
    /\ last_ok = None
    /\ frames = [t \in Threads |-> Idle]
    /\ remembered = None
    /\ probe = None

\* The user replaces the text of one entry.
edit_entry ==
    /\ \E key \in InputKeys :
         \E text \in EntryTexts[key] \ {input_vars[key]} :
           input_vars' = [input_vars EXCEPT ![key] = text]
    /\ event' = [op |-> "edit", shown |-> "none", core |-> None]
    /\ UNCHANGED <<calculator, quad, current_results, result_vars, files,
                   last_ok, calc_vars, probe>>

\* The dictionary the core returns for `args`, or `before` when it raises.
ReturnedOr(call, before) == IF call.f.pc = "returned" THEN call.f.ret ELSE before
Succeeded(args, before) ==
    ReturnedOr(calculate_antenna_parameters(calculator, args[1], args[2], args[3],
                                            quad), before)

\* The user presses "calculate".  A calculation succeeds when the core was
\* called and returned a dictionary; last_ok keeps that dictionary.
calculate_parameters ==
    /\ \E o \in {calculate_parameters_handler(Gui, quad)} :
           /\ calculator' = o.gui.calculator
           /\ current_results' = o.gui.current_results
           /\ result_vars' = o.gui.result_vars
           /\ event' = [op |-> "calculate", shown |-> o.shown, core |-> o.core]
           /\ last_ok' = IF o.core = None THEN last_ok
                         ELSE Succeeded(o.core, last_ok)
    /\ UNCHANGED <<quad, input_vars, files, calc_vars, probe>>

\* The user presses "save".  A written report is kept with the calculation
\* that had succeeded last when it was written.
save_results ==
    /\ Len(files) < MaxFiles
    /\ \E can_open \in BOOLEAN :
         \E o \in {save_results_handler(Gui, can_open)} :
             /\ files' = IF o.written = None THEN files
                         ELSE Append(files, [report |-> o.written, after |-> last_ok])
             /\ event' = [op |-> "save", shown |-> o.shown, core |-> None]
    /\ UNCHANGED <<calculator, quad, input_vars, current_results, result_vars,
                   last_ok, calc_vars, probe>>

Next == edit_entry \/ calculate_parameters \/ save_results

Spec == Init /\ [][Next]_vars

-----------------------------------------------------------------------------
(* Properties of single methods (SpecFn)                                   *)

Applied(fn) == probe.fn = fn /\ probe.out # Unset

\* C4: calculate_conductances returns two conductances that are strictly
\* positive and not below the floor 1e-12, whatever number each integration
\* produced (positive, zero or negative): each is the larger of the integral
\* divided by 120 pi^2 and 1e-12.
C4_ConductancesFloored ==
    Applied("conductances") =>
        \A i \in {1, 2} :
            ~IsNaN(probe.args[i]) =>
                LET g == probe.out[i]
                    q == NpDiv(probe.args[i], ConductanceScale)
                IN  /\ FLess(Zero, g)
                    /\ FLeq(ConductanceFloor, g)
                    /\ FLeq(q, g)
                    /\ g = q \/ g = ConductanceFloor

\* A negative and a zero integral, both raised to the floor.
C4_Witness ==
    /\ Applied("conductances")
    /\ FLess(probe.args[1], Zero) /\ probe.args[2] = Zero
    /\ probe.out = <<ConductanceFloor, ConductanceFloor>>

\* C5: calculate_feed_position gives exactly 0 for every R_edge < 50; for
\* every R_edge >= 50 it takes the arc-cosine, and only of an argument in
\* [0, 1]; at R_edge = 50 the arc-cosine branch is taken and gives 0 too.
C5_FeedBranches ==
    Applied("feed_position") =>
        LET R == probe.args[1]
            o == probe.out
        IN  /\ FLess(R, Lit(50, 0)) => o.y0 = Zero /\ o.acos_of = Unset
            /\ FLeq(Lit(50, 0), R) =>
                   /\ o.acos_of # Unset
                   /\ FLeq(Zero, o.acos_of) /\ FLeq(o.acos_of, Lit(1, 0))
            /\ R = Lit(50, 0) => o.acos_of = Lit(1, 0) /\ o.y0 = Zero

\* The boundary R_edge = 50 on a patch of non-zero length.
C5_Witness ==
    /\ Applied("feed_position")
    /\ probe.args[1] = Lit(50, 0) /\ probe.args[2] # Zero
    /\ probe.out.acos_of = Lit(1, 0)

\* C7: whenever the double integral I1 is <= 0 calculate_directivity reports
\* exactly 0 dBi and evaluates neither a logarithm nor a division by I1; the
\* logarithm is computed only when I1 > 0.
C7_DirectivitySentinel ==
    Applied("directivity") =>
        LET I1 == probe.args[2]
            o  == probe.out
        IN  /\ FLeq(I1, Zero) =>
                   o.D_dBi = Zero /\ o.log_of = Unset /\ o.div_by = Unset
            /\ o.log_of # Unset => FLess(Zero, I1)

\* A negative integral reported as 0 dBi.
C7_Witness ==
    /\ Applied("directivity")
    /\ FLess(probe.args[2], Zero)
    /\ probe.out.D_dBi = Zero /\ probe.out.log_of = Unset

\* calculate_effective_permittivity applied within the domain epsilon_r >= 1,
\* h > 0, W > 0.
AppliedInDomain ==
    /\ Applied("effective_permittivity")
    /\ FLeq(Lit(1, 0), probe.args[1])
    /\ FLess(Zero, probe.args[2]) /\ FLess(Zero, probe.args[3])

Midpoint(epsilon_r) == NpDiv(FAdd(epsilon_r, Lit(1, 0)), Lit(2, 0))

\* One unit in the last digit above a.
RoundingAbove(a) == FAdd(a, FMul(a, Lit(1, 1 - Digits)))

-----------------------------------------------------------------------------
(* Properties of calculate_antenna_parameters (SpecCalc)                   *)

Returned(t) == frames[t].pc = "returned"
Half(a) == NpDiv(a, Lit(2, 0))

\* C6 as stated: every result returned satisfies
\* 0 <= feed_position_50ohm <= patch_length / 2.
C6_FeedWithinHalfLength ==
    \A t \in Threads :
        Returned(t) =>
            LET r == frames[t].ret
            IN  /\ FLeq(Zero, r.feed_position_50ohm)
                /\ FLeq(r.feed_position_50ohm, Half(r.patch_length))

\* C6, amended: a result with a finite patch length >= 0 satisfies
\* 0 <= feed_position_50ohm <= patch_length / 2; with a negative patch
\* length the feed position lies in [patch_length / 2, 0] instead.
C6_FeedBetweenEdgeAndCentre ==
    \A t \in Threads :
        Returned(t) =>
            LET r  == frames[t].ret
                L  == r.patch_length
                y0 == r.feed_position_50ohm
            IN  /\ IsFin(L) /\ FLeq(Zero, L) =>
                       FLeq(Zero, y0) /\ FLeq(y0, Half(L))
                /\ IsFin(L) /\ FLess(L, Zero) =>
                       FLeq(Half(L), y0) /\ FLeq(y0, Zero)

\* A result from the arc-cosine branch with the feed strictly inside a patch
\* of positive length.
C6_Witness ==
    \E t \in Threads :
        /\ Returned(t)
        /\ FLeq(Lit(50, 0), frames[t].ret.input_impedance_edge)
        /\ FLess(Zero, frames[t].ret.feed_position_50ohm)
        /\ FLess(frames[t].ret.feed_position_50ohm, Half(frames[t].ret.patch_length))

\* C9: an invocation returns the same result as any earlier invocation with
\* the same arguments, whatever was called in between, and no call changes
\* the calculator: c keeps the value set at construction.
C9_SameArgumentsSameResult ==
    /\ calculator = NewCalculator
    /\ \A t \in Threads :
           Returned(t) /\ remembered # None /\ remembered.args = Args(frames[t]) =>
               frames[t].ret = remembered.ret

\* A second invocation with the remembered arguments has returned after an
\* invocation with other arguments returned in between.
C9_Witness ==
    \E t \in Threads :
        /\ Returned(t) /\ remembered # None
        /\ remembered.by = "nobody" /\ remembered.between
        /\ remembered.args = Args(frames[t])
        /\ frames[t].ret = remembered.ret

\* What an invocation returns (or raises) when it runs alone on a new
\* calculator.
Alone(q, a) == calculate_antenna_parameters(NewCalculator, a[1], a[2], a[3], q).f
AloneTable ==
    [q \in QuadBehaviours |-> [a \in ArgumentSamples |-> Alone(q, a)]]

\* C10: under every interleaving of the statements of two invocations, each
\* invocation ends as it does when run alone: the same result returned, or
\* the same exception raised.
C10_InterleavedAsAlone ==
    \A t \in Threads :
        frames[t].pc \in {"returned", "raised"} =>
            /\ frames[t].pc = AloneTable[quad][Args(frames[t])].pc
            /\ frames[t].ret = AloneTable[quad][Args(frames[t])].ret

\* Both invocations have returned, with different arguments, each having
\* been overlapped by statements of the other.
C10_Witness ==
    /\ \A t \in Threads : Returned(t) /\ frames[t].overlapped
    /\ Args(frames["t1"]) # Args(frames["t2"])
-----------------------------------------------------------------------------
(* Properties of the GUI (Spec)                                            *)

\* A request made with these entries is rejected: a field is empty after
\* stripping, or is not the text of a number.
InputRejected(entries) ==
    \E key \in InputKeys :
        strip(entries[key]) = <<>> \/ float(strip(entries[key])) = ValueError

\* The last calculate request failed: its input was rejected, or the core
\* raised on the arguments it was given.
RequestFailed ==
    /\ event.op = "calculate"
    /\ \/ event.core = None
       \/ IsRaised(Succeeded(event.core, ZeroDivisionError))

ErrorBoxes == {"error: fill in all fields", "error: not numbers",
               "error: calculation failed"}

Millimetres(x) == FMul(x, Lit(1000, 0))

\* The eight labels as one complete result dictionary fills them.
DisplayOf(d) ==
    [key \in ResultKeys |->
        CASE key = "patch_width" -> FormatFixed(Millimetres(d.patch_width), 2)
          [] key = "patch_length" -> FormatFixed(Millimetres(d.patch_length), 2)
          [] key = "feed_position_50ohm" ->
                 FormatFixed(Millimetres(d.feed_position_50ohm), 2)
          [] key = "effective_permittivity" ->
                 FormatFixed(d.effective_permittivity, 3)
          [] key = "input_impedance_edge" -> FormatFixed(d.input_impedance_edge, 2)
          [] key = "single_slot_conductance" ->
                 FormatSci2(d.single_slot_conductance)
          [] key = "mutual_conductance" -> FormatSci2(d.mutual_conductance)
          [] key = "directivity" -> FormatFixed(d.directivity, 2)]

\* C1: after any sequence of calculate requests, a failed request has shown
\* an error message, and the eight displayed fields are either all the
\* placeholder "--" (no calculation has succeeded) or all formatted from the
\* one dictionary of the calculation that succeeded last; never a mixture.
C1_NoPartialDisplay ==
    /\ RequestFailed => event.shown \in ErrorBoxes
    /\ IF last_ok = None
       THEN \A key \in ResultKeys : result_vars[key] = Placeholder
       ELSE result_vars = DisplayOf(last_ok)

\* A request on which the core raised, after a calculation that succeeded:
\* the display still shows that calculation.
C1_Witness ==
    /\ RequestFailed /\ event.core # None
    /\ last_ok # None
    /\ result_vars = DisplayOf(last_ok)

\* C2: a calculate request whose three texts include one that is empty
\* after stripping or is not a number never invokes
\* calculate_antenna_parameters, and leaves current_results and the
\* displayed fields unchanged.
C2_RejectedBeforeCore ==
    [][event'.op = "calculate" /\ InputRejected(input_vars) =>
           /\ event'.core = None
           /\ current_results' = current_results
           /\ result_vars' = result_vars]_vars

\* A rejected request made after a calculation had succeeded: the core was
\* not called and the results of that calculation are still held.
C2_Witness ==
    /\ event.op = "calculate" /\ InputRejected(input_vars)
    /\ event.core = None
    /\ current_results # None /\ current_results = last_ok

\* The ranges announced by setup_input_panel, in SI units.
InRange(args) ==
    /\ FLeq(Lit(1, 8), args[1]) /\ FLeq(args[1], Lit(1, 11))
    /\ FLeq(Lit(1, 0), args[2]) /\ FLeq(args[2], Lit(20, 0))
    /\ FLeq(Lit(1, -5), args[3]) /\ FLeq(args[3], Lit(1, -1))

\* C3: calculate_parameters calls calculate_antenna_parameters only with a
\* frequency within 0.1-100 GHz, a permittivity within 1-20 and a height
\* within 0.01-100 mm; a number outside these ranges never reaches the core.
C3_RangesEnforced ==
    event.op = "calculate" /\ event.core # None => InRange(event.core)

\* The lines of a report that echoes and lists one result dictionary.
ReportOf(d) ==
    [key \in DOMAIN DisplayOf(d) \cup
             {"resonant_frequency", "substrate_permittivity", "substrate_height"} |->
        CASE key = "resonant_frequency" ->
                 FormatFixed(NpDiv(d.resonant_frequency, Lit(1, 9)), 3)
          [] key = "substrate_permittivity" -> FormatRepr(d.substrate_permittivity)
          [] key = "substrate_height" ->
                 FormatFixed(Millimetres(d.substrate_height), 2)
          [] OTHER -> DisplayOf(d)[key]]

\* C8: after any sequence of edits, calculate requests and save requests,
\* every report written holds the three inputs and the eight results of one
\* calculation, the one that had succeeded last when the report was
\* written; while no calculation has succeeded, a save request writes no
\* file and shows only a warning.
C8_ReportIsLastSuccess ==
    /\ \A i \in 1..Len(files) :
           /\ files[i].after # None
           /\ files[i].report = ReportOf(files[i].after)
    /\ last_ok = None =>
           /\ files = <<>>
           /\ event.op = "save" => event.shown = "warning: calculate first"

\* Two reports of two different calculations, the entries having since been
\* edited to a text that is rejected.
C8_Witness ==
    /\ Len(files) = 2
    /\ files[1].after # files[2].after
    /\ files[2].report = ReportOf(last_ok)
    /\ InputRejected(input_vars)
=============================================================================
